---- MODULE Spec2Model ----
(***************************************************************************)
(* UObjectExporterBPLibrary (ObjectExporterBPLibrary.cpp): the six export  *)
(* operations of the ObjectExporter plugin and the files they write.       *)
(*                                                                         *)
(* The library is a set of static functions and keeps no state between     *)
(* calls; what a call can observe of earlier activity is the file system.  *)
(* A behaviour is therefore one call made by the host: Init draws the file *)
(* system the call finds, the call's arguments are drawn by the action     *)
(* that starts it.  The five single-asset exports run to completion in one *)
(* step.  ExportMap is followed statement group by statement group (open,  *)
(* the four enumeration loops one actor per step, close), because its      *)
(* check() can stop it between two writes.                                  *)
(*                                                                         *)
(* Bytes given to the FArchive are modelled as reaching the file in the    *)
(* order they are written.  Texture export (ExportAssets) writes elsewhere *)
(* and is left to the host.                                                 *)
(***************************************************************************)
EXTENDS Integers, Sequences, FiniteSets, TLC

VARIABLES
    fs,           \* the files written since the call began: path -> fields held
    before,       \* the file system the call found: "absent" or "old" files
    openHandles,  \* FArchive file writers created and not yet closed
    pc,           \* "idle", "map" (inside ExportMap), "returned", "aborted", "crashed"
    call,         \* the call made: operation, arguments, environment, return value
    world,        \* ExportMap: the actors GetAllActorsOfClass returns, by category
    phase,        \* ExportMap: the loop being run, 1..4 (0 outside ExportMap)
    idx,          \* ExportMap: position of the next actor of that loop
    trace         \* ExportMap: records written and exports called, in order

vars == <<fs, before, openHandles, pc, call, world, phase, idx, trace>>

----------------------------------------------------------------------------
(* Bounds *)

\* Largest number of actors in the world handed to ExportMap (all categories).
MaxActors == 2

----------------------------------------------------------------------------
(* File suffixes *)

JSON_FILE_POSTFIX == ".json"
STATIC_MESH_BINARY_FILE_POSTFIX == ".stm"
SKELETAL_MESH_BINARY_FILE_POSTFIX == ".skm"
SKELETON_BINARY_FILE_POSTFIX == ".skt"
ANIMSEQUENCE_BINARY_FILE_POSTFIX == ".anm"
MAP_BINARY_FILE_POSTFIX == ".map"

\* FString comparison ignores case unless asked otherwise: the text compared.
ToLower(s) ==
    CASE s = ".STM" -> ".stm"
      [] OTHER -> s

\* A path is dir + name + ext, name being "."-separated segments and ext the
\* last ".xxx" of the text ("" when the text has none).
EndsWith(FullFilePathName, Postfix) == ToLower(FullFilePathName.ext) = Postfix

\* File names FFileHelper::IsFilenameValidForSaving rejects (reserved device
\* names stand for every rejected name).
RejectedNames == {<<"CON">>}

IsFilenameValidForSaving(FullFilePathName) == FullFilePathName.name \notin RejectedNames

----------------------------------------------------------------------------
(* Serialized fields.  A file is a sequence of fields [t, v]: t the C++     *)
(* type given to operator<<, v the value.                                   *)

Int32(n) == [t |-> "int32", v |-> n]
UInt16(n) == [t |-> "uint16", v |-> n]
Float(x) == [t |-> "float", v |-> x]
Vector(x, s) == [t |-> "FVector", v |-> <<x, s>>]
Vector2D(x) == [t |-> "FVector2D", v |-> x]
Quat(x) == [t |-> "FQuat", v |-> x]
LinearColor(x) == [t |-> "FLinearColor", v |-> x]
String(x) == [t |-> "FString", v |-> x]
Name(x) == [t |-> "FName", v |-> x]
Transform(x) == [t |-> "FTransform", v |-> x]
KeyArray(x) == [t |-> "TArray", v |-> x]
JsonText(x) == [t |-> "json", v |-> x]

\* uint16 Index = Indices[iIndex]: the conversion keeps the low 16 bits.
UInt16Range == 65536
\* (A conversion that saturates at the largest 16-bit value.)
ToUInt16Saturated(i) == IF i < UInt16Range THEN i ELSE UInt16Range - 1
ToUInt16(i) == i % UInt16Range

RECURSIVE Flatten(_)
Flatten(ss) == IF ss = <<>> THEN <<>> ELSE Head(ss) \o Flatten(Tail(ss))

Absent == <<[t |-> "absent", v |-> 0]>>
\* What a file written before the call holds.
Old == <<[t |-> "old", v |-> 0]>>

----------------------------------------------------------------------------
(* Assets of the host.  An asset is named by an identifier; "null" is the  *)
(* null pointer.                                                            *)

Null == "null"

\* n vertices: position, packed tangent Z (xyz and handedness w), first UV.
Verts(n, base) ==
    [i \in 1..n |-> [Position |-> base + i, TangentZ |-> base + i,
                     W |-> IF i % 2 = 0 THEN -1 ELSE 1, UV |-> base + i]]

LOD(vertices, indices) == [Vertices |-> vertices, Indices |-> indices]

CubeIndices == [i \in 1..36 |-> (i * 5) % 8]

\* UStaticMesh: GetPathName() as "."-separated segments, RenderData (FALSE:
\* null), RenderData->LODResources.
StaticMeshAsset(id) ==
    CASE id = "TriA" ->
           [PathName |-> <<"/Game/A/Tri", "Tri">>, RenderData |-> TRUE,
            LODResources |-> <<LOD(Verts(3, 0), <<0, 1, 2>>), LOD(Verts(1, 0), <<0>>)>>]
      [] id = "TriB" ->
           [PathName |-> <<"/Game/B/Tri", "Tri">>, RenderData |-> TRUE,
            LODResources |-> <<LOD(Verts(2, 10), <<1, 0, 65537>>)>>]
      [] id = "Con" ->
           [PathName |-> <<"/Game/CON", "CON">>, RenderData |-> TRUE,
            LODResources |-> <<LOD(Verts(1, 20), <<0>>)>>]
      [] id = "Cube" ->
           [PathName |-> <<"/Game/Shapes/Cube", "Cube">>, RenderData |-> TRUE,
            LODResources |-> <<LOD(Verts(8, 30), CubeIndices),
                               LOD(Verts(4, 30), <<0, 1, 2, 2, 3, 0>>),
                               LOD(Verts(1, 30), <<0>>)>>]
      [] id = "NoLOD" ->
           [PathName |-> <<"/Game/Shapes/NoLOD", "NoLOD">>, RenderData |-> TRUE,
            LODResources |-> <<>>]
      [] id = "Unbuilt" ->
           [PathName |-> <<"/Game/Shapes/Unbuilt", "Unbuilt">>, RenderData |-> FALSE,
            LODResources |-> <<>>]
      [] id = "Wide" ->
           [PathName |-> <<"/Game/Shapes/Wide", "Wide">>, RenderData |-> TRUE,
            LODResources |-> <<LOD(Verts(1, 60), <<65535, 65536, 65537, 2147483647>>)>>]

\* Static meshes an actor of the world may reference, and those handed to
\* ExportStaticMesh directly.
WorldStaticMeshes == {"TriA", "TriB", "Con"}
StaticMeshes == WorldStaticMeshes \cup {"Cube", "NoLOD", "Unbuilt", "Wide"}

\* USkeletalMesh: GetPathName(), GetResourceForRendering() (FALSE: null),
\* its LODRenderData, Skeleton.
SkeletalMeshAsset(id) ==
    CASE id = "Hero" ->
           [PathName |-> <<"/Game/Chars/Hero", "Hero">>, RenderData |-> TRUE,
            LODRenderData |-> <<LOD(Verts(2, 40), <<0, 1, 0>>), LOD(Verts(1, 40), <<0>>)>>,
            Skeleton |-> "HeroSkeleton"]
      [] id = "Ghost" ->
           [PathName |-> <<"/Game/Chars/Ghost", "Ghost">>, RenderData |-> TRUE,
            LODRenderData |-> <<LOD(Verts(1, 50), <<0, 0, 0>>)>>,
            Skeleton |-> Null]
      [] id = "Unloaded" ->
           [PathName |-> <<"/Game/Chars/Unloaded", "Unloaded">>, RenderData |-> FALSE,
            LODRenderData |-> <<>>,
            Skeleton |-> Null]
      [] id = "WideSkin" ->
           [PathName |-> <<"/Game/Chars/WideSkin", "WideSkin">>, RenderData |-> TRUE,
            LODRenderData |-> <<LOD(Verts(2, 70), <<65537, 131072, 70000>>)>>,
            Skeleton |-> Null]

WorldSkeletalMeshes == {"Hero", "Ghost"}
SkeletalMeshes == WorldSkeletalMeshes \cup {"Unloaded", "WideSkin"}

\* USkeleton: GetReferenceSkeleton().GetRawRefBoneInfo() and GetRawRefBonePose().
SkeletonAsset(id) ==
    CASE id = "HeroSkeleton" ->
           [BoneInfos |-> <<[Name |-> "root", ParentIndex |-> -1],
                            [Name |-> "spine", ParentIndex |-> 0]>>,
            BonePose |-> <<"rootPose", "spinePose">>]

Skeletons == {"HeroSkeleton"}

\* UAnimSequence: GetRawAnimationData(), one FRawAnimSequenceTrack per bone.
AnimSequenceAsset(id) ==
    CASE id = "Run" ->
           [AnimationData |->
              <<[ScaleKeys |-> <<"s0">>, RotKeys |-> <<"r0", "r1">>, PosKeys |-> <<"p0", "p1">>],
                [ScaleKeys |-> <<"s0">>, RotKeys |-> <<"r2">>, PosKeys |-> <<"p2">>]>>]

AnimSequences == {"Run"}

\* UCameraComponent handed to ExportCamera.
CameraAsset(id) ==
    CASE id = "MainCamera" ->
           [Location |-> "loc1", Rotation |-> "rot1", FieldOfView |-> 90, AspectRatio |-> "16:9"]

Cameras == {"MainCamera"}

----------------------------------------------------------------------------
(* Paths *)

ProjectSavedDir == "Saved/"

Path(dir, name, ext) == [dir |-> dir, name |-> name, ext |-> ext]

\* ResourceFullName.Split(".", &ResourcePath, &ResourceName): the text after
\* the first "."; ResourceName stays empty when there is none.
ResourceName(PathName) == IF Len(PathName) >= 2 THEN Tail(PathName) ELSE <<>>

SaveStaticMeshPath(name) ==
    Path(ProjectSavedDir \o "Bin/StaticMesh/", name, STATIC_MESH_BINARY_FILE_POSTFIX)
SaveSkeletalMeshPath(name) ==
    Path(ProjectSavedDir \o "Bin/SkeletalMesh/", name, SKELETAL_MESH_BINARY_FILE_POSTFIX)
SaveSkeletonPath(name) ==
    Path(ProjectSavedDir \o "Bin/SkeletalMesh/Skeleton/", name, SKELETON_BINARY_FILE_POSTFIX)
\* (The animation path with the skeleton's directory and suffix.)
SaveAnimSequencePathCopied(name) ==
    Path(ProjectSavedDir \o "Bin/SkeletalMesh/Skeleton/", name, SKELETON_BINARY_FILE_POSTFIX)
SaveAnimSequencePath(name) ==
    Path(ProjectSavedDir \o "Bin/SkeletalMesh/AnimSequence/", name, ANIMSEQUENCE_BINARY_FILE_POSTFIX)

\* Suffixes of the destinations the host hands to a call.
Suffixes == {".json", ".stm", ".STM", ".skm", ".skt", ".anm", ".map", ".txt", ""}

\* Destinations the host hands to a call.
HostPaths == {Path("Out/", n, e) : n \in {<<"out">>, <<"CON">>}, e \in Suffixes}

----------------------------------------------------------------------------
(* Codecs: the fields each export writes *)

\* (The loop without its break: every LOD.)
EncodedLODsAll(LODs) == LODs

\* for (CurLOD : LODResources) { ...; break; }: the LODs the loop body runs for.
EncodedLODs(LODs) == IF LODs = <<>> THEN <<>> ELSE <<Head(LODs)>>

\* Normal = FVector(TangentZ.X, TangentZ.Y, TangentZ.Z) * TangentZ.W
StaticMeshVertex(vtx) ==
    <<Vector(vtx.Position, 1), Vector(vtx.TangentZ, vtx.W), Vector2D(vtx.UV)>>

\* Normal = FVector(TangentZ.X, TangentZ.Y, TangentZ.Z)
SkeletalMeshVertex(vtx) ==
    <<Vector(vtx.Position, 1), Vector(vtx.TangentZ, 1), Vector2D(vtx.UV)>>

IndexFields(Indices) == [i \in 1..Len(Indices) |-> UInt16(ToUInt16(Indices[i]))]

StaticMeshLODStream(CurLOD) ==
    <<Int32(Len(CurLOD.Vertices))>>
        \o Flatten([i \in 1..Len(CurLOD.Vertices) |-> StaticMeshVertex(CurLOD.Vertices[i])])
        \o <<Int32(Len(CurLOD.Indices))>>
        \o IndexFields(CurLOD.Indices)

SkeletalMeshLODStream(CurLOD) ==
    <<Int32(Len(CurLOD.Vertices))>>
        \o Flatten([i \in 1..Len(CurLOD.Vertices) |-> SkeletalMeshVertex(CurLOD.Vertices[i])])
        \o <<Int32(Len(CurLOD.Indices))>>
        \o IndexFields(CurLOD.Indices)

StaticMeshStream(mesh) ==
    LET lods == EncodedLODs(mesh.LODResources)
    IN  Flatten([i \in 1..Len(lods) |-> StaticMeshLODStream(lods[i])])

SkeletalMeshStream(mesh) ==
    LET lods == EncodedLODs(mesh.LODRenderData)
    IN  Flatten([i \in 1..Len(lods) |-> SkeletalMeshLODStream(lods[i])])

SkeletonStream(skeleton) ==
    <<Int32(Len(skeleton.BoneInfos))>>
        \o Flatten([i \in 1..Len(skeleton.BoneInfos) |->
                      <<Name(skeleton.BoneInfos[i].Name), Int32(skeleton.BoneInfos[i].ParentIndex)>>])
        \o <<Int32(Len(skeleton.BonePose))>>
        \o [i \in 1..Len(skeleton.BonePose) |-> Transform(skeleton.BonePose[i])]

AnimSequenceStream(anim) ==
    <<Int32(Len(anim.AnimationData))>>
        \o Flatten([i \in 1..Len(anim.AnimationData) |->
                      <<KeyArray(anim.AnimationData[i].ScaleKeys),
                        KeyArray(anim.AnimationData[i].RotKeys),
                        KeyArray(anim.AnimationData[i].PosKeys)>>])

\* The JSON document of a static mesh: every LOD, indices as they are.
StaticMeshJson(mesh) ==
    <<JsonText([FileVersion |-> 1,
                MeshName |-> mesh.PathName[Len(mesh.PathName)],
                VertexFormat |-> <<>>,
                LODCount |-> Len(mesh.LODResources),
                LODs |-> [i \in 1..Len(mesh.LODResources) |->
                            [LOD |-> i - 1,
                             VertexCount |-> Len(mesh.LODResources[i].Vertices),
                             Vertices |-> [j \in 1..Len(mesh.LODResources[i].Vertices) |->
                                             mesh.LODResources[i].Vertices[j].Position],
                             IndexCount |-> Len(mesh.LODResources[i].Indices),
                             Indices |-> mesh.LODResources[i].Indices]]])>>

CameraJson(camera) ==
    <<JsonText([FileVersion |-> 1,
                Camera |-> [Location |-> camera.Location, Rotation |-> camera.Rotation,
                            FOV |-> camera.FieldOfView, AspectRatio |-> camera.AspectRatio]])>>

----------------------------------------------------------------------------
(* The single-asset exports.  Each takes the asset, the destination, the   *)
(* file system and what the host answers (io.open: CreateFileWriter gives *)
(* a writer; io.serialize, io.save: FJsonSerializer::Serialize and         *)
(* FFileHelper::SaveStringToFile succeed), and gives                       *)
(*   ret     "true", "false", or "crash" (a null pointer was dereferenced) *)
(*   files   the file system it leaves                                     *)
(*   leaked  file writers it created and did not close                     *)
(*   opened  the destination was opened for writing                        *)

Outcome(ret, files, leaked, opened) ==
    [ret |-> ret, files |-> files, leaked |-> leaked, opened |-> opened]

Failed(files) == Outcome("false", files, 0, FALSE)

\* (A writer opened for appending: the stream follows what the file held.)
WrittenAppended(files, FullFilePathName, stream) ==
    [q \in DOMAIN files \cup {FullFilePathName} |->
        IF q = FullFilePathName
        THEN (IF q \in DOMAIN files THEN files[q] ELSE <<>>) \o stream
        ELSE files[q]]

\* CreateFileWriter truncates, then the stream is written, then Close().
Written(files, FullFilePathName, stream) ==
    [q \in DOMAIN files \cup {FullFilePathName} |->
        IF q = FullFilePathName THEN stream ELSE files[q]]

\* The value returned once the binary stream is written and the writer closed.
BinaryWrittenReturn == "false"

ExportStaticMesh(StaticMesh, FullFilePathName, files, io) ==
    IF ~IsFilenameValidForSaving(FullFilePathName) THEN Failed(files)
    ELSE IF StaticMesh = Null THEN Failed(files)
    ELSE IF EndsWith(FullFilePathName, JSON_FILE_POSTFIX) THEN
        IF StaticMeshAsset(StaticMesh).RenderData /\ io.serialize /\ io.save
        THEN Outcome("true",
                     Written(files, FullFilePathName, StaticMeshJson(StaticMeshAsset(StaticMesh))),
                     0, TRUE)
        ELSE Failed(files)
    ELSE IF EndsWith(FullFilePathName, STATIC_MESH_BINARY_FILE_POSTFIX) THEN
        IF ~io.open THEN Failed(files)
        ELSE IF ~StaticMeshAsset(StaticMesh).RenderData
        THEN Outcome("crash", Written(files, FullFilePathName, <<>>), 1, TRUE)
        ELSE Outcome(BinaryWrittenReturn,
                     Written(files, FullFilePathName, StaticMeshStream(StaticMeshAsset(StaticMesh))),
                     0, TRUE)
    ELSE Failed(files)

ExportSkeletalMesh(SkeletalMesh, FullFilePathName, files, io) ==
    IF ~IsFilenameValidForSaving(FullFilePathName) THEN Failed(files)
    ELSE IF SkeletalMesh = Null THEN Failed(files)
    ELSE IF EndsWith(FullFilePathName, JSON_FILE_POSTFIX) THEN Failed(files)
    ELSE IF EndsWith(FullFilePathName, SKELETAL_MESH_BINARY_FILE_POSTFIX) THEN
        IF ~io.open THEN Failed(files)
        ELSE IF ~SkeletalMeshAsset(SkeletalMesh).RenderData
        THEN Outcome("crash", Written(files, FullFilePathName, <<>>), 1, TRUE)
        ELSE Outcome(BinaryWrittenReturn,
                     Written(files, FullFilePathName, SkeletalMeshStream(SkeletalMeshAsset(SkeletalMesh))),
                     0, TRUE)
    ELSE Failed(files)

ExportSkeleton(Skeleton, FullFilePathName, files, io) ==
    IF ~IsFilenameValidForSaving(FullFilePathName) THEN Failed(files)
    ELSE IF Skeleton = Null THEN Failed(files)
    ELSE IF EndsWith(FullFilePathName, JSON_FILE_POSTFIX) THEN Failed(files)
    ELSE IF EndsWith(FullFilePathName, SKELETON_BINARY_FILE_POSTFIX) THEN
        IF ~io.open THEN Failed(files)
        ELSE Outcome(BinaryWrittenReturn,
                     Written(files, FullFilePathName, SkeletonStream(SkeletonAsset(Skeleton))),
                     0, TRUE)
    ELSE Failed(files)

ExportAnimSequence(AnimSequence, FullFilePathName, files, io) ==
    IF ~IsFilenameValidForSaving(FullFilePathName) THEN Failed(files)
    ELSE IF AnimSequence = Null THEN Failed(files)
    ELSE IF EndsWith(FullFilePathName, JSON_FILE_POSTFIX) THEN Failed(files)
    ELSE IF EndsWith(FullFilePathName, ANIMSEQUENCE_BINARY_FILE_POSTFIX) THEN
        IF ~io.open THEN Failed(files)
        ELSE Outcome(BinaryWrittenReturn,
                     Written(files, FullFilePathName, AnimSequenceStream(AnimSequenceAsset(AnimSequence))),
                     0, TRUE)
    ELSE Failed(files)

ExportCamera(Camera, FullFilePathName, files, io) ==
    IF ~IsFilenameValidForSaving(FullFilePathName) THEN Failed(files)
    ELSE IF Camera = Null THEN Failed(files)
    ELSE IF io.serialize /\ io.save
         THEN Outcome("true", Written(files, FullFilePathName, CameraJson(CameraAsset(Camera))), 0, TRUE)
         ELSE Failed(files)

----------------------------------------------------------------------------
(* The world handed to ExportMap *)

\* Actors of each class as GetAllActorsOfClass may return them.  Component
\* is FALSE when GetComponentByClass finds none; a mesh may be unset (Null);
\* AnimToPlay is Null when no UAnimSequence is bound.
CameraActors ==
    {[Component |-> c, Location |-> "loc1", Rotation |-> "rot1",
      FieldOfView |-> 90, AspectRatio |-> "16:9"] : c \in BOOLEAN}

DirectionalLightActors ==
    {[Component |-> c, Rotation |-> "rot2", LightColor |-> "white", Intensity |-> 10] :
        c \in BOOLEAN}

StaticMeshActors ==
    {[Component |-> FALSE, Location |-> "loc3", Rotation |-> "rot3", StaticMesh |-> Null]}
        \cup {[Component |-> TRUE, Location |-> "loc3", Rotation |-> "rot3", StaticMesh |-> m] :
                m \in WorldStaticMeshes \cup {Null}}

SkeletalMeshActors ==
    {[Component |-> FALSE, Location |-> "loc4", Rotation |-> "rot4",
      SkeletalMesh |-> Null, AnimToPlay |-> Null],
     [Component |-> TRUE, Location |-> "loc4", Rotation |-> "rot4",
      SkeletalMesh |-> Null, AnimToPlay |-> Null],
     [Component |-> TRUE, Location |-> "loc4", Rotation |-> "rot4",
      SkeletalMesh |-> "Hero", AnimToPlay |-> "Run"],
     [Component |-> TRUE, Location |-> "loc4", Rotation |-> "rot4",
      SkeletalMesh |-> "Hero", AnimToPlay |-> Null],
     [Component |-> TRUE, Location |-> "loc4", Rotation |-> "rot4",
      SkeletalMesh |-> "Ghost", AnimToPlay |-> Null]}

SeqsUpTo(S, n) == UNION {[1..k -> S] : k \in 0..n}

NoWorld == [cameras |-> <<>>, lights |-> <<>>, statics |-> <<>>, skeletals |-> <<>>]

\* The actors of the loop `category` (1 cameras, 2 directional lights,
\* 3 static-mesh actors, 4 skeletal-mesh actors).
ActorsOf(w, category) ==
    CASE category = 1 -> w.cameras
      [] category = 2 -> w.lights
      [] category = 3 -> w.statics
      [] category = 4 -> w.skeletals

----------------------------------------------------------------------------
(* Records of the composite file *)

\* (A count one short of the actors enumerated.)
CountFieldShort(Actors) == Int32(IF Len(Actors) = 0 THEN 0 ELSE Len(Actors) - 1)
\* int32 XxxCount = AllXxxActors.Num(); *FileWriter << XxxCount;
CountField(Actors) == Int32(Len(Actors))

\* Target = Location + Direction * 100.0f
CameraRecord(a) ==
    <<Vector(a.Location, 1), Vector(<<a.Location, a.Rotation>>, 100),
      Float(a.FieldOfView), Float(a.AspectRatio)>>

DirectionalLightRecord(a) ==
    <<LinearColor(a.LightColor), Vector(a.Rotation, 1), Float(a.Intensity)>>

MeshRecord(a, name) == <<Quat(a.Rotation), Vector(a.Location, 1), String(name)>>

\* An entry of trace: a record appended to the composite file, or an export
\* called for an actor.
RecordEvent(category, i) ==
    [ev |-> "record", cat |-> category, idx |-> i, op |-> "", asset |-> Null,
     path |-> Path("", <<>>, ""), ret |-> "", opened |-> FALSE]

ExportEvent(category, i, op, asset, path, r) ==
    [ev |-> "export", cat |-> category, idx |-> i, op |-> op, asset |-> asset,
     path |-> path, ret |-> r.ret, opened |-> r.opened]

\* (An iteration that calls the exports of the entity, then writes its record.)
IterationEventsExportsFirst(recorded, exported) == exported \o <<recorded>>

\* One iteration of a mesh loop: the record is written (lines 531-533,
\* 570-572), then the exports of the entity are called (lines 547, 586-592).
IterationEvents(recorded, exported) == <<recorded>> \o exported

----------------------------------------------------------------------------
(* State *)

\* What the file at path p held when the call began.
Before(p) == IF before = "old" THEN Old ELSE Absent

\* What the file at path p holds now.
File(p) == IF p \in DOMAIN fs THEN fs[p] ELSE Before(p)

IO == [open : BOOLEAN, serialize : BOOLEAN, save : BOOLEAN]

NoCall ==
    [op |-> "none", asset |-> Null, path |-> Path("", <<>>, ""),
     io |-> [open |-> FALSE, serialize |-> FALSE, save |-> FALSE],
     ret |-> "none", opened |-> FALSE]

Init ==
    /\ fs = <<>>
    /\ before \in {"absent", "old"}
    /\ openHandles = 0
    /\ pc = "idle"
    /\ call = NoCall
    /\ world = NoWorld
    /\ phase = 0
    /\ idx = 0
    /\ trace = <<>>

\* A single-asset export called by the host, from call to return (or crash).
HostCall(op, asset, p, io, r) ==
    /\ fs' = r.files
    /\ openHandles' = openHandles + r.leaked
    /\ pc' = IF r.ret = "crash" THEN "crashed" ELSE "returned"
    /\ call' = [op |-> op, asset |-> asset, path |-> p, io |-> io,
                ret |-> IF r.ret = "crash" THEN "none" ELSE r.ret,
                opened |-> r.opened]
    /\ UNCHANGED <<before, world, phase, idx, trace>>

CallExportStaticMesh ==
    /\ pc = "idle"
    /\ \E m \in StaticMeshes \cup {Null}, p \in HostPaths, io \in IO :
         HostCall("ExportStaticMesh", m, p, io, ExportStaticMesh(m, p, fs, io))

CallExportSkeletalMesh ==
    /\ pc = "idle"
    /\ \E m \in SkeletalMeshes \cup {Null}, p \in HostPaths, io \in IO :
         HostCall("ExportSkeletalMesh", m, p, io, ExportSkeletalMesh(m, p, fs, io))

CallExportSkeleton ==
    /\ pc = "idle"
    /\ \E k \in Skeletons \cup {Null}, p \in HostPaths, io \in IO :
         HostCall("ExportSkeleton", k, p, io, ExportSkeleton(k, p, fs, io))

CallExportAnimSequence ==
    /\ pc = "idle"
    /\ \E a \in AnimSequences \cup {Null}, p \in HostPaths, io \in IO :
         HostCall("ExportAnimSequence", a, p, io, ExportAnimSequence(a, p, fs, io))

CallExportCamera ==
    /\ pc = "idle"
    /\ \E c \in Cameras \cup {Null}, p \in HostPaths, io \in IO :
         HostCall("ExportCamera", c, p, io, ExportCamera(c, p, fs, io))

----------------------------------------------------------------------------
(* ExportMap *)

\* *FileWriter << x: the fields are appended to the composite file.
Append2(files, p, fields) == [files EXCEPT ![p] = @ \o fields]

\* Lines 444-459: the world is checked, then the suffix, then the writer is
\* created; no call of IsFilenameValidForSaving.
MapReturnsFalse(valid, p, io) ==
    /\ pc' = "returned"
    /\ call' = [op |-> "ExportMap", asset |-> IF valid THEN "World" ELSE Null,
                path |-> p, io |-> io, ret |-> "false", opened |-> FALSE]
    /\ UNCHANGED <<fs, before, openHandles, world, phase, idx, trace>>

\* Lines 461-467: the writer is open, the cameras are counted and the count
\* is written.
MapEnters(w, p, io) ==
    /\ pc' = "map"
    /\ call' = [op |-> "ExportMap", asset |-> "World", path |-> p, io |-> io,
                ret |-> "none", opened |-> TRUE]
    /\ openHandles' = openHandles + 1
    /\ world' = w
    /\ phase' = 1
    /\ idx' = 1
    /\ fs' = Written(fs, p, <<CountField(w.cameras)>>)
    /\ UNCHANGED <<before, trace>>

MapBegin ==
    /\ pc = "idle"
    /\ \E valid \in BOOLEAN, p \in HostPaths, open \in BOOLEAN :
         LET io == [open |-> open, serialize |-> FALSE, save |-> FALSE]
         IN  IF ~valid \/ ~EndsWith(p, MAP_BINARY_FILE_POSTFIX) \/ ~open
             THEN MapReturnsFalse(valid, p, io)
             ELSE \E c \in SeqsUpTo(CameraActors, MaxActors) :
                  \E l \in SeqsUpTo(DirectionalLightActors, MaxActors - Len(c)) :
                  \E s \in SeqsUpTo(StaticMeshActors, MaxActors - Len(c) - Len(l)) :
                  \E k \in SeqsUpTo(SkeletalMeshActors, MaxActors - Len(c) - Len(l) - Len(s)) :
                     MapEnters([cameras |-> c, lights |-> l, statics |-> s, skeletals |-> k],
                               p, io)

\* (A check that lets the loop go on to the next actor.)
CheckSkipped ==
    /\ idx' = idx + 1
    /\ UNCHANGED <<fs, before, openHandles, pc, call, world, phase, trace>>

\* check(Component != nullptr) fails: the process stops there.
CheckFails ==
    /\ pc' = "aborted"
    /\ UNCHANGED <<fs, before, openHandles, call, world, phase, idx, trace>>

\* A null mesh is dereferenced (GetStaticMesh()->GetPathName(),
\* SkeletalMesh->GetPathName()): the process stops there.
NullDereferenced ==
    /\ pc' = "crashed"
    /\ UNCHANGED <<fs, before, openHandles, call, world, phase, idx, trace>>

\* The other outcome of GetPathName() on a null mesh: no member is read and
\* the call yields the path name of no object, which has no "." in it.
NonePathName == <<"None">>

\* Lines 469-486, one iteration.
MapCamera ==
    /\ pc = "map" /\ phase = 1 /\ idx <= Len(world.cameras)
    /\ LET a == world.cameras[idx]
       IN  IF ~a.Component THEN CheckFails
           ELSE /\ fs' = Append2(fs, call.path, CameraRecord(a))
                /\ trace' = Append(trace, RecordEvent(1, idx))
                /\ idx' = idx + 1
                /\ UNCHANGED <<before, openHandles, pc, call, world, phase>>

\* Lines 494-509, one iteration.
MapDirectionalLight ==
    /\ pc = "map" /\ phase = 2 /\ idx <= Len(world.lights)
    /\ LET a == world.lights[idx]
       IN  IF ~a.Component THEN CheckFails
           ELSE /\ fs' = Append2(fs, call.path, DirectionalLightRecord(a))
                /\ trace' = Append(trace, RecordEvent(2, idx))
                /\ idx' = idx + 1
                /\ UNCHANGED <<before, openHandles, pc, call, world, phase>>

\* Lines 488-492, 511-515, 550-554: the loop is over, the actors of the next
\* class are counted and the count is written.
MapNextLoop ==
    /\ pc = "map" /\ phase \in 1..3 /\ idx > Len(ActorsOf(world, phase))
    /\ fs' = Append2(fs, call.path, <<CountField(ActorsOf(world, phase + 1))>>)
    /\ phase' = phase + 1
    /\ idx' = 1
    /\ UNCHANGED <<before, openHandles, pc, call, world, trace>>

\* Lines 517-548, one iteration: the record, then ExportStaticMesh.  A null
\* mesh stops the process at GetPathName() or goes on as the object "None".
MapStaticMesh ==
    /\ pc = "map" /\ phase = 3 /\ idx <= Len(world.statics)
    /\ LET a == world.statics[idx]
       IN  IF ~a.Component THEN CheckFails
           ELSE \/ a.StaticMesh = Null /\ NullDereferenced
                \/ \E open \in BOOLEAN :
                     LET ResourceFullName == IF a.StaticMesh = Null THEN NonePathName
                                             ELSE StaticMeshAsset(a.StaticMesh).PathName
                         name == ResourceName(ResourceFullName)
                         io == [open |-> open, serialize |-> FALSE, save |-> FALSE]
                         files == Append2(fs, call.path, MeshRecord(a, name))
                         dest == SaveStaticMeshPath(name)
                         r == ExportStaticMesh(a.StaticMesh, dest, files, io)
                     IN  /\ fs' = r.files
                         /\ trace' = trace \o IterationEvents(RecordEvent(3, idx),
                                                <<ExportEvent(3, idx, "ExportStaticMesh", a.StaticMesh, dest, r)>>)
                         /\ openHandles' = openHandles + r.leaked
                         /\ pc' = IF r.ret = "crash" THEN "crashed" ELSE pc
                         /\ idx' = idx + 1
                         /\ UNCHANGED <<before, call, world, phase>>

\* Lines 556-593, one iteration: the record, then ExportSkeletalMesh,
\* ExportSkeleton and ExportAnimSequence.  With a null mesh that got past
\* GetPathName(), Component->SkeletalMesh->Skeleton (line 589) reads through
\* the null pointer after ExportSkeletalMesh has returned.
MapSkeletalMesh ==
    /\ pc = "map" /\ phase = 4 /\ idx <= Len(world.skeletals)
    /\ LET a == world.skeletals[idx]
       IN  IF ~a.Component THEN CheckFails
           ELSE \/ a.SkeletalMesh = Null /\ NullDereferenced
                \/ \E o1 \in BOOLEAN, o2 \in BOOLEAN, o3 \in BOOLEAN :
                     LET ResourceFullName == IF a.SkeletalMesh = Null THEN NonePathName
                                             ELSE SkeletalMeshAsset(a.SkeletalMesh).PathName
                         name == ResourceName(ResourceFullName)
                         io(o) == [open |-> o, serialize |-> FALSE, save |-> FALSE]
                         files == Append2(fs, call.path, MeshRecord(a, name))
                         d1 == SaveSkeletalMeshPath(name)
                         r1 == ExportSkeletalMesh(a.SkeletalMesh, d1, files, io(o1))
                         d2 == SaveSkeletonPath(name)
                         skeleton == SkeletalMeshAsset(a.SkeletalMesh).Skeleton
                         r2 == ExportSkeleton(skeleton, d2, r1.files, io(o2))
                         d3 == SaveAnimSequencePath(name)
                         r3 == ExportAnimSequence(a.AnimToPlay, d3, r2.files, io(o3))
                         e1 == ExportEvent(4, idx, "ExportSkeletalMesh", a.SkeletalMesh, d1, r1)
                         e2 == ExportEvent(4, idx, "ExportSkeleton", skeleton, d2, r2)
                         e3 == ExportEvent(4, idx, "ExportAnimSequence", a.AnimToPlay, d3, r3)
                     IN  IF r1.ret = "crash" \/ a.SkeletalMesh = Null
                         THEN /\ fs' = r1.files
                              /\ trace' = trace \o IterationEvents(RecordEvent(4, idx), <<e1>>)
                              /\ openHandles' = openHandles + r1.leaked
                              /\ pc' = "crashed"
                              /\ UNCHANGED <<before, call, world, phase, idx>>
                         ELSE /\ fs' = r3.files
                              /\ trace' = trace \o IterationEvents(RecordEvent(4, idx), <<e1, e2, e3>>)
                              /\ idx' = idx + 1
                              /\ UNCHANGED <<before, openHandles, pc, call, world, phase>>

\* Lines 596-602: Close(), delete, return true.
MapFinish ==
    /\ pc = "map" /\ phase = 4 /\ idx > Len(world.skeletals)
    /\ openHandles' = openHandles - 1
    /\ pc' = "returned"
    /\ call' = [call EXCEPT !.ret = "true"]
    /\ UNCHANGED <<fs, before, world, phase, idx, trace>>

Next ==
    \/ CallExportStaticMesh
    \/ CallExportSkeletalMesh
    \/ CallExportSkeleton
    \/ CallExportAnimSequence
    \/ CallExportCamera
    \/ MapBegin
    \/ MapCamera
    \/ MapDirectionalLight
    \/ MapStaticMesh
    \/ MapSkeletalMesh
    \/ MapNextLoop
    \/ MapFinish

Spec == Init /\ [][Next]_vars

----------------------------------------------------------------------------
(* Reading files back *)

\* Bytes operator<< writes for a field of the binary mesh stream.
FieldSize(f) ==
    CASE f.t = "int32" -> 4
      [] f.t = "uint16" -> 2
      [] f.t = "float" -> 4
      [] f.t = "FVector" -> 12
      [] f.t = "FVector2D" -> 8

RECURSIVE StreamSize(_)
StreamSize(stream) ==
    IF stream = <<>> THEN 0 ELSE FieldSize(Head(stream)) + StreamSize(Tail(stream))

\* The field types of one record of each section of the composite file.
RecordShape(category) ==
    CASE category = 1 -> <<"FVector", "FVector", "float", "float">>
      [] category = 2 -> <<"FLinearColor", "FVector", "float">>
      [] category = 3 -> <<"FQuat", "FVector", "FString">>
      [] category = 4 -> <<"FQuat", "FVector", "FString">>

Unreadable == <<-1>>

\* A reader of the composite file from section `category` on: the counts it
\* reads, each followed by that many records of the section's shape, with
\* nothing left over; Unreadable otherwise.
RECURSIVE ReadSections(_, _)
ReadSections(content, category) ==
    IF category > 4 THEN (IF content = <<>> THEN <<>> ELSE Unreadable)
    ELSE IF content = <<>> \/ Head(content).t # "int32" THEN Unreadable
    ELSE LET n == Head(content).v
             shape == RecordShape(category)
             w == Len(shape)
             body == Tail(content)
         IN  IF n < 0 \/ Len(body) < n * w THEN Unreadable
             ELSE IF \E j \in 1..(n * w) : body[j].t # shape[((j - 1) % w) + 1] THEN Unreadable
             ELSE LET rest == ReadSections(SubSeq(body, n * w + 1, Len(body)), category + 1)
                  IN  IF rest = Unreadable THEN Unreadable ELSE <<n>> \o rest

ReadBack(content) == ReadSections(content, 1)

\* The resource names held by the records of the composite file, in order.
RECURSIVE ReadNames(_)
ReadNames(content) ==
    IF content = <<>> THEN <<>>
    ELSE IF Head(content).t = "FString" THEN <<Head(content).v>> \o ReadNames(Tail(content))
    ELSE ReadNames(Tail(content))

\* The whole stream of some asset, as one of the exports writes it.
WholeStreams ==
    {StaticMeshStream(StaticMeshAsset(m)) : m \in StaticMeshes}
        \cup {SkeletalMeshStream(SkeletalMeshAsset(m)) : m \in SkeletalMeshes}
        \cup {SkeletonStream(SkeletonAsset(k)) : k \in Skeletons}
        \cup {AnimSequenceStream(AnimSequenceAsset(a)) : a \in AnimSequences}
        \cup {StaticMeshJson(StaticMeshAsset(m)) : m \in StaticMeshes}
        \cup {CameraJson(CameraAsset(c)) : c \in Cameras}

----------------------------------------------------------------------------
(* Claims *)

BinaryExports ==
    {"ExportStaticMesh", "ExportSkeletalMesh", "ExportSkeleton", "ExportAnimSequence"}

BinarySuffix(op) ==
    CASE op = "ExportStaticMesh" -> ".stm"
      [] op = "ExportSkeletalMesh" -> ".skm"
      [] op = "ExportSkeleton" -> ".skt"
      [] op = "ExportAnimSequence" -> ".anm"
      [] op = "ExportMap" -> ".map"
      [] OTHER -> "none"

\* The stream the binary export `op` has to write for `asset`.
BinaryStream(op, asset) ==
    CASE op = "ExportStaticMesh" -> StaticMeshStream(StaticMeshAsset(asset))
      [] op = "ExportSkeletalMesh" -> SkeletalMeshStream(SkeletalMeshAsset(asset))
      [] op = "ExportSkeleton" -> SkeletonStream(SkeletonAsset(asset))
      [] op = "ExportAnimSequence" -> AnimSequenceStream(AnimSequenceAsset(asset))

\* The suffixes the file formats give each operation: its binary suffix and,
\* where the operation has a JSON form, ".json".
RecognisedSuffixes(op) ==
    CASE op = "ExportCamera" -> {".json"}
      [] op = "ExportMap" -> {".map"}
      [] OTHER -> {".json", BinarySuffix(op)}

\* The binary stream of the call was written whole and its writer closed.
BinaryWrittenAndClosed ==
    /\ pc = "returned"
    /\ call.op \in BinaryExports
    /\ call.asset # Null
    /\ IsFilenameValidForSaving(call.path)
    /\ ToLower(call.path.ext) = BinarySuffix(call.op)
    /\ call.opened
    /\ call.path \in DOMAIN fs
    /\ fs[call.path] = BinaryStream(call.op, call.asset)
    /\ openHandles = 0

\* C1: ExportStaticMesh, ExportSkeletalMesh, ExportSkeleton and
\* ExportAnimSequence return true whenever, for a non-null asset and a valid
\* path with the operation's binary suffix, the file opened and the stream was
\* written whole and closed; they return false only when nothing was produced.
C1_SuccessReturnsTrue ==
    /\ BinaryWrittenAndClosed => call.ret = "true"
    /\ (pc = "returned" /\ call.op \in BinaryExports /\ call.ret = "false")
          => call.path \notin DOMAIN fs

\* C2: every one of the six operations, called with a destination whose
\* suffix it does not recognise, returns false and creates no file.
C2_UnrecognisedSuffixFails ==
    (pc = "returned" /\ ToLower(call.path.ext) \notin RecognisedSuffixes(call.op))
        => (call.ret = "false" /\ call.path \notin DOMAIN fs)

\* C3: in every operation, ExportMap included, a destination that path
\* validation rejects or that cannot be opened makes the call return false
\* before any byte is written: no file is created or modified, and ExportMap
\* enumerates no entity and writes no side-output file.
C3_RejectedDestinationWritesNothing ==
    (call.op # "none" /\ (~IsFilenameValidForSaving(call.path) \/ ~call.opened))
        => /\ fs = <<>>
           /\ trace = <<>>
           /\ pc = "returned"
           /\ call.ret = "false"

----------------------------------------------------------------------------
(* ExportMap: what the call has done *)

MapCall == call.op = "ExportMap" /\ call.opened

MapReturnedTrue == pc = "returned" /\ call.op = "ExportMap" /\ call.ret = "true"

WorldCounts ==
    <<Len(world.cameras), Len(world.lights), Len(world.statics), Len(world.skeletals)>>

\* The name of an asset: the last segment of its path name.
ObjectName(PathName) == <<PathName[Len(PathName)]>>

WorldNames ==
    [i \in 1..Len(world.statics) |->
        IF world.statics[i].StaticMesh = Null THEN <<>>
        ELSE ObjectName(StaticMeshAsset(world.statics[i].StaticMesh).PathName)]
    \o [i \in 1..Len(world.skeletals) |->
        ObjectName(SkeletalMeshAsset(world.skeletals[i].SkeletalMesh).PathName)]

\* C4: whenever ExportMap returns true the composite file is four sections in
\* the order cameras, directional lights, static-mesh instances, skeletal-mesh
\* instances, each a count followed by exactly that many records.
C4_FourCountedSections ==
    MapReturnedTrue =>
        /\ ReadBack(File(call.path)) = WorldCounts
        /\ ReadNames(File(call.path)) = WorldNames
        /\ \A i, j \in 1..Len(trace) : i < j => trace[i].cat <= trace[j].cat

\* C4 witness: a world of one static-mesh instance reads back as 0,0,1,0.
C4_Witness ==
    /\ MapReturnedTrue
    /\ ReadBack(File(call.path)) = <<0, 0, 1, 0>>

\* C5: once a call has ended, by return or by the assertion's abort, every
\* file it touched holds a whole stream: no file is left holding a prefix.
C5_NoPartialFile ==
    pc \in {"returned", "aborted"} =>
        \A p \in DOMAIN fs :
            IF call.op = "ExportMap" /\ p = call.path
            THEN ReadBack(fs[p]) # Unreadable
            ELSE fs[p] \in WholeStreams

\* C6: once a call has ended, on any exit path, the abort of ExportMap
\* included, every file writer it opened is closed: as many handles are open
\* as before the call.
C6_WritersClosed == pc \in {"returned", "aborted"} => openHandles = 0

\* The actor at position i of loop `category` has been passed by ExportMap.
Passed(category, i) == category < phase \/ (category = phase /\ i < idx)

\* Fields of the composite file once the loops have reached (phase, idx).
FieldsUpTo(category, i) ==
    LET n(c) == Len(ActorsOf(world, c))
        w(c) == Len(RecordShape(c))
        Full(c) == IF c < category THEN 1 + n(c) * w(c) ELSE 0
    IN  Full(1) + Full(2) + Full(3) + 1 + (i - 1) * w(category)

\* C7: when an enumerated entity lacks its component, ExportMap stops at it
\* through the assertion: the call returns nothing, and neither that entity
\* nor any later one gets a record or a side-output file.
C7_MissingComponentAborts ==
    /\ MapCall =>
          \A c \in 1..4 : \A i \in 1..Len(ActorsOf(world, c)) :
              Passed(c, i) => ActorsOf(world, c)[i].Component
    /\ pc = "aborted" =>
          /\ MapCall /\ call.ret = "none"
          /\ idx \in 1..Len(ActorsOf(world, phase))
          /\ ~ActorsOf(world, phase)[idx].Component
          /\ \A k \in 1..Len(trace) : Passed(trace[k].cat, trace[k].idx)
          /\ Len(File(call.path)) = FieldsUpTo(phase, idx)
          /\ \A p \in DOMAIN fs \ {call.path} :
                \E k \in 1..Len(trace) : trace[k].ev = "export" /\ trace[k].path = p

\* C7 witness: the second static-mesh actor lacks its component, after the
\* first has been written and exported.
C7_Witness ==
    /\ pc = "aborted" /\ phase = 3 /\ idx = 2
    /\ \E k \in 1..Len(trace) : trace[k].ev = "export" /\ trace[k].opened

----------------------------------------------------------------------------
(* ExportMap: side-output files *)

\* Where the side-output files of an asset named `name` belong.
GeometryFile(name) == Path("Saved/Bin/StaticMesh/", name, ".stm")
SkinnedGeometryFile(name) == Path("Saved/Bin/SkeletalMesh/", name, ".skm")
SkeletonFile(name) == Path("Saved/Bin/SkeletalMesh/Skeleton/", name, ".skt")
AnimationFile(name) == Path("Saved/Bin/SkeletalMesh/AnimSequence/", name, ".anm")

StaticName(i) ==
    IF world.statics[i].StaticMesh = Null THEN <<>>
    ELSE ObjectName(StaticMeshAsset(world.statics[i].StaticMesh).PathName)
SkeletalName(i) == ObjectName(SkeletalMeshAsset(world.skeletals[i].SkeletalMesh).PathName)

Exports == {k \in 1..Len(trace) : trace[k].ev = "export"}

\* The export `op` was called for actor i of loop `category` with asset and path.
Called(category, i, op, asset, path) ==
    \E k \in Exports :
        /\ trace[k].cat = category /\ trace[k].idx = i
        /\ trace[k].op = op /\ trace[k].asset = asset /\ trace[k].path = path

\* C8 as claimed: whenever ExportMap returns true, a geometry file exists for
\* every static-mesh instance, and a geometry, a skeleton and an animation
\* file for every skeletal-mesh instance, with or without a clip bound.
C8_AllSideFilesExist ==
    MapReturnedTrue =>
        /\ \A i \in 1..Len(world.statics) : File(GeometryFile(StaticName(i))) # Absent
        /\ \A i \in 1..Len(world.skeletals) :
              /\ File(SkinnedGeometryFile(SkeletalName(i))) # Absent
              /\ File(SkeletonFile(SkeletalName(i))) # Absent
              /\ File(AnimationFile(SkeletalName(i))) # Absent

\* C8 amended: whenever ExportMap returns true, the geometry export has been
\* called for every static-mesh instance and the geometry, skeleton and
\* animation exports for every skeletal-mesh instance, each with the path
\* derived from the resource name; a side-output file has been written
\* exactly where one of these calls opened its destination, which none does
\* for a null asset (no clip bound, no skeleton) or a rejected path.
C8_SideFilesWhereOpened ==
    MapReturnedTrue =>
        /\ \A i \in 1..Len(world.statics) :
              Called(3, i, "ExportStaticMesh", world.statics[i].StaticMesh,
                     GeometryFile(StaticName(i)))
        /\ \A i \in 1..Len(world.skeletals) :
              LET a == world.skeletals[i]
              IN  /\ Called(4, i, "ExportSkeletalMesh", a.SkeletalMesh,
                            SkinnedGeometryFile(SkeletalName(i)))
                  /\ Called(4, i, "ExportSkeleton", SkeletalMeshAsset(a.SkeletalMesh).Skeleton,
                            SkeletonFile(SkeletalName(i)))
                  /\ Called(4, i, "ExportAnimSequence", a.AnimToPlay,
                            AnimationFile(SkeletalName(i)))
        /\ \A k \in Exports :
              /\ trace[k].opened => (trace[k].path \in DOMAIN fs /\ fs[trace[k].path] # Absent)
              /\ (trace[k].asset = Null \/ trace[k].path.name \in RejectedNames)
                    => ~trace[k].opened
        /\ \A p \in DOMAIN fs \ {call.path} :
              \E k \in Exports : trace[k].path = p /\ trace[k].opened

\* C8 witness: ExportMap returned true for a skeletal-mesh instance with no
\* clip bound; its geometry was written, no animation file was.
C8_Witness ==
    /\ MapReturnedTrue
    /\ before = "absent"
    /\ \E i \in 1..Len(world.skeletals) :
          /\ world.skeletals[i].AnimToPlay = Null
          /\ SkinnedGeometryFile(SkeletalName(i)) \in DOMAIN fs
          /\ File(AnimationFile(SkeletalName(i))) = Absent

\* The instances of loop `category` that reference mesh m.
StaticInstances(m) == {i \in 1..Len(world.statics) : world.statics[i].StaticMesh = m}
SkeletalInstances(m) == {i \in 1..Len(world.skeletals) : world.skeletals[i].SkeletalMesh = m}

ExportsOf(op, m) == {k \in Exports : trace[k].op = op /\ trace[k].asset = m}

\* The exports that opened the file at path p.
Writers(p) == {k \in Exports : trace[k].path = p /\ trace[k].opened}

Last(K) == CHOOSE k \in K : \A j \in K : j <= k

\* The mesh export ran once per instance of m, each time to the path of m.
OncePerInstance(op, m, instances, path) ==
    /\ Cardinality(ExportsOf(op, m)) = Cardinality(instances)
    /\ \A k \in ExportsOf(op, m) : trace[k].path = path

\* C9 as claimed: with N instances of one mesh, ExportMap calls the mesh
\* export N times, always to the same path, and the file ends up holding what
\* a single export of that mesh writes.
C9_ReexportIsIdempotent ==
    MapReturnedTrue =>
        /\ \A m \in WorldStaticMeshes :
              LET p == GeometryFile(ObjectName(StaticMeshAsset(m).PathName))
              IN  /\ OncePerInstance("ExportStaticMesh", m, StaticInstances(m), p)
                  /\ (\E k \in ExportsOf("ExportStaticMesh", m) : trace[k].opened)
                        => File(p) = StaticMeshStream(StaticMeshAsset(m))
        /\ \A m \in WorldSkeletalMeshes :
              LET p == SkinnedGeometryFile(ObjectName(SkeletalMeshAsset(m).PathName))
              IN  /\ OncePerInstance("ExportSkeletalMesh", m, SkeletalInstances(m), p)
                  /\ (\E k \in ExportsOf("ExportSkeletalMesh", m) : trace[k].opened)
                        => File(p) = SkeletalMeshStream(SkeletalMeshAsset(m))

\* C9 amended: with N instances of one mesh, ExportMap calls the mesh export
\* N times, always to the same path, and the file ends up holding what a
\* single export writes of the mesh whose export opened it last: that mesh,
\* unless a different mesh of the same resource name was exported after it.
C9_LastExportWins ==
    MapReturnedTrue =>
        /\ \A m \in WorldStaticMeshes :
              LET p == GeometryFile(ObjectName(StaticMeshAsset(m).PathName))
              IN  /\ OncePerInstance("ExportStaticMesh", m, StaticInstances(m), p)
                  /\ Writers(p) # {}
                        => File(p) = StaticMeshStream(StaticMeshAsset(trace[Last(Writers(p))].asset))
        /\ \A m \in WorldSkeletalMeshes :
              LET p == SkinnedGeometryFile(ObjectName(SkeletalMeshAsset(m).PathName))
              IN  /\ OncePerInstance("ExportSkeletalMesh", m, SkeletalInstances(m), p)
                  /\ Writers(p) # {}
                        => File(p) = SkeletalMeshStream(SkeletalMeshAsset(trace[Last(Writers(p))].asset))

\* C9 witness: two instances of one static mesh, both exports opened the file.
C9_Witness ==
    /\ MapReturnedTrue
    /\ \E m \in WorldStaticMeshes :
          /\ Cardinality(StaticInstances(m)) = 2
          /\ Cardinality({k \in ExportsOf("ExportStaticMesh", m) : trace[k].opened}) = 2

----------------------------------------------------------------------------
(* Size of the binary mesh stream *)

\* 4 + 32 V + 4 + 2 I for the first LOD of the mesh.
FirstLODSize(LODs) == 4 + 32 * Len(LODs[1].Vertices) + 4 + 2 * Len(LODs[1].Indices)

LODsOf(op, mesh) ==
    IF op = "ExportStaticMesh" THEN StaticMeshAsset(mesh).LODResources
    ELSE SkeletalMeshAsset(mesh).LODRenderData

MeshExports == {"ExportStaticMesh", "ExportSkeletalMesh"}

\* C10: the binary stream of a mesh whose first LOD has V vertices and I
\* indices is 4 + 32 V + 4 + 2 I bytes long, however many LODs the mesh has.
C10_MeshStreamSize ==
    /\ (/\ pc = "returned" /\ call.op \in MeshExports /\ call.opened
        /\ ToLower(call.path.ext) = BinarySuffix(call.op)
        /\ LODsOf(call.op, call.asset) # <<>>)
          => StreamSize(fs[call.path]) = FirstLODSize(LODsOf(call.op, call.asset))
    /\ \A k \in Exports :
          (/\ trace[k].op \in MeshExports
           /\ trace[k].opened
           /\ \A j \in Writers(trace[k].path) : j <= k)
             => StreamSize(fs[trace[k].path]) = FirstLODSize(LODsOf(trace[k].op, trace[k].asset))

\* C10 witness: the cube (8 vertices, 36 indices, three LODs) is 336 bytes.
C10_Witness ==
    /\ pc = "returned" /\ call.op = "ExportStaticMesh" /\ call.asset = "Cube"
    /\ Len(StaticMeshAsset("Cube").LODResources) = 3
    /\ call.path \in DOMAIN fs
    /\ ToLower(call.path.ext) = ".stm"
    /\ StreamSize(fs[call.path]) = 336

----------------------------------------------------------------------------
(* Indices of the binary mesh stream *)

\* A reader of one LOD of the mesh stream: past the vertex count and the three
\* fields of each vertex, the index count and the fields that follow it.
IndexSection(stream) ==
    LET at == 1 + 3 * stream[1].v + 1
    IN  [count |-> stream[at].v,
         values |-> [i \in 1..(Len(stream) - at) |-> stream[at + i]]]

\* The stream holds as many 16-bit indices as the LOD has, each the low 16
\* bits of the LOD's index.
IndicesWrapped(stream, Indices) ==
    LET s == IndexSection(stream)
    IN  /\ s.count = Len(Indices)
        /\ Len(s.values) = Len(Indices)
        /\ \A i \in 1..Len(Indices) :
              /\ s.values[i].t = "uint16"
              /\ s.values[i].v \in 0..65535
              /\ (Indices[i] - s.values[i].v) % 65536 = 0
              /\ Indices[i] < 65536 => s.values[i].v = Indices[i]
              /\ Indices[i] = 65537 => s.values[i].v = 1

\* C11: in the binary mesh stream every index i of the uint32 range is written
\* as the 16-bit value i mod 65536: 65537 is written as 1 is, an index below
\* 65536 is written unchanged, and the index count written is the number of
\* indices, wrapped or not.
C11_IndicesWrapTo16Bits ==
    /\ (/\ pc = "returned" /\ call.op \in MeshExports /\ call.opened
        /\ ToLower(call.path.ext) = BinarySuffix(call.op)
        /\ LODsOf(call.op, call.asset) # <<>>)
          => IndicesWrapped(fs[call.path], LODsOf(call.op, call.asset)[1].Indices)
    /\ \A k \in Exports :
          (/\ trace[k].op \in MeshExports
           /\ trace[k].opened
           /\ \A j \in Writers(trace[k].path) : j <= k)
             => IndicesWrapped(fs[trace[k].path], LODsOf(trace[k].op, trace[k].asset)[1].Indices)

\* C11 witness: the indices 65535, 65536, 65537 and 2147483647 of a static
\* mesh are in its file as 65535, 0, 1 and 65535, after the count 4.
C11_Witness ==
    /\ pc = "returned" /\ call.op = "ExportStaticMesh" /\ call.asset = "Wide"
    /\ call.path \in DOMAIN fs
    /\ ToLower(call.path.ext) = ".stm"
    /\ IndexSection(fs[call.path]).count = 4
    /\ [i \in 1..4 |-> IndexSection(fs[call.path]).values[i].v] = <<65535, 0, 1, 65535>>

----------------------------------------------------------------------------
(* ExportMap: order of the record and the exports of an entity *)

Records == {j \in 1..Len(trace) : trace[j].ev = "record"}

SameEntity(j, k) == trace[j].cat = trace[k].cat /\ trace[j].idx = trace[k].idx

\* The exports ExportMap calls for an entity of loop `category`, in order.
EntityExports(category) ==
    IF category = 3 THEN <<"ExportStaticMesh">>
    ELSE IF category = 4 THEN <<"ExportSkeletalMesh", "ExportSkeleton", "ExportAnimSequence">>
    ELSE <<>>

\* C12 as claimed: in the static-mesh and the skeletal-mesh loop of ExportMap,
\* the exports of every entity (geometry and, for a skeletal instance, skeleton
\* and animation) are called before the record of that entity is appended to
\* the composite file.
C12_ExportsPrecedeRecord ==
    \A j \in Records : \A k \in Exports : SameEntity(j, k) => k < j

\* C12 amended: in the static-mesh and the skeletal-mesh loop of ExportMap,
\* the record of every entity is appended to the composite file before the
\* exports of that entity are called: each record of these loops is followed
\* at once by the exports of its entity, geometry first, then skeleton and
\* animation, and each export follows the record of its own entity.
C12_RecordPrecedesExports ==
    /\ \A j \in Records :
          LET ops == EntityExports(trace[j].cat)
          IN  (pc # "crashed" /\ ops # <<>>) =>
                 /\ j + Len(ops) <= Len(trace)
                 /\ \A n \in 1..Len(ops) :
                       /\ trace[j + n].ev = "export"
                       /\ trace[j + n].op = ops[n]
                       /\ SameEntity(j, j + n)
    /\ \A k \in Exports :
          \E j \in Records :
              /\ j < k /\ SameEntity(j, k)
              /\ \A i \in (j + 1)..k : trace[i].ev = "export"
    /\ \A j \in Records :
          trace[j].cat \in {3, 4} =>
              Len(File(call.path)) >= FieldsUpTo(trace[j].cat, trace[j].idx + 1)

\* C12 witness: ExportMap returned true for a skeletal-mesh instance; its
\* record is followed by its three exports, the first of which wrote a file.
C12_Witness ==
    /\ MapReturnedTrue
    /\ \E j \in Records :
          /\ trace[j].cat = 4
          /\ j + 3 <= Len(trace)
          /\ trace[j + 1].op = "ExportSkeletalMesh" /\ trace[j + 1].opened
          /\ trace[j + 3].op = "ExportAnimSequence"
          /\ SameEntity(j, j + 3)

----------------------------------------------------------------------------
(* ExportMap: the return value and the nested exports *)

\* Every actor of the world has the component its loop asks for.
NoMissingComponent ==
    \A c \in 1..4 : \A i \in 1..Len(ActorsOf(world, c)) : ActorsOf(world, c)[i].Component

\* Every actor of the world has its record, and every mesh actor has had each
\* of its exports called.
EnumerationComplete ==
    \A c \in 1..4 : \A i \in 1..Len(ActorsOf(world, c)) :
        /\ \E j \in Records : trace[j].cat = c /\ trace[j].idx = i
        /\ \A n \in 1..Len(EntityExports(c)) :
              \E k \in Exports :
                  trace[k].cat = c /\ trace[k].idx = i /\ trace[k].op = EntityExports(c)[n]

\* C13: for a valid world, a destination ending in .map that opens and no
\* missing component, ExportMap, once it has ended, has returned true and
\* written the whole composite file, whether the nested exports succeeded or
\* failed: every entity has been enumerated, those after a failed export
\* included.
C13_ReturnIgnoresExports ==
    (MapCall /\ NoMissingComponent /\ pc # "map") =>
        /\ MapReturnedTrue
        /\ ReadBack(File(call.path)) = WorldCounts
        /\ EnumerationComplete

====
